---------------------------- MODULE Spec2Model ----------------------------
(***************************************************************************)
(* The email generation workflow of the content intelligence system:       *)
(*   graphs/email_generation.py      the LangGraph state machine           *)
(*   agents/matching/intent_summarizer.py   analyze_intent                 *)
(*   agents/matching/asset_ranker.py        rank_assets                    *)
(*   models/state.py                 AgentState, create_initial_state      *)
(*                                                                         *)
(* Python values are encoded uniformly.  None is the record None; a str    *)
(* that the code inspects (dictionary values, service areas, rooms) is     *)
(* Str(cs) with cs the sequence of its characters, so that lower() and the *)
(* "in" substring test are computed character by character; a dict is      *)
(* Dict(f) with f a function on the keys it holds.  Strings the code only  *)
(* carries along (titles, urls, pain points, criterion names, node names)  *)
(* are TLA+ strings.  Floats are integers: scores are whole numbers in the *)
(* source and the confidence 0.75 is kept in hundredths.                   *)
(***************************************************************************)
EXTENDS Integers, Sequences, FiniteSets, TLC

VARIABLES
    state,      \* the AgentState threaded through the graph
    node,       \* the node the graph executes next (START, a node name, END)
    raised,     \* None, or the exception that propagated out of invoke()
    executed    \* the nodes that have run to completion, in order

vars == <<state, node, raised, executed>>

\* ------------------------------------------------------------------ bounds
MaxProspectId == 2
MaxCampaignId == 2

\* ----------------------------------------------------------- Python values
None == [type |-> "NoneType"]
Str(cs) == [type |-> "str", val |-> cs]
Dict(f) == [type |-> "dict", items |-> f]

IsNone(v) == v = None

\* Python truthiness of an optional str: None and "" are falsy.
Truthy(v) == v.type = "str" /\ Len(v.val) > 0

\* dict.get(key, default)
Get(d, key, default) == IF key \in DOMAIN d.items THEN d.items[key] ELSE default

\* key in dict
HasKey(d, key) == key \in DOMAIN d.items

\* str.lower(), character by character
LowerChar(c) ==
    CASE c = "A" -> "a" [] c = "C" -> "c" [] c = "E" -> "e" [] c = "F" -> "f"
      [] c = "H" -> "h" [] c = "I" -> "i" [] c = "L" -> "l" [] c = "N" -> "n"
      [] c = "R" -> "r" [] c = "T" -> "t"
      [] OTHER -> c

Lower(cs) == [i \in 1..Len(cs) |-> LowerChar(cs[i])]

\* pat in cs  (substring test)
Contains(pat, cs) ==
    \E i \in 0..(Len(cs) - Len(pat)) : SubSeq(cs, i + 1, i + Len(pat)) = pat

\* ------------------------------------------------------- string literals
HEALTH == <<"h", "e", "a", "l", "t", "h">>
FINANCE == <<"f", "i", "n", "a", "n", "c", "e">>

CLOUD_MIGRATION == <<"c", "l", "o", "u", "d", "-", "m", "i", "g", "r", "a", "t", "i", "o", "n">>
DATA_ANALYTICS == <<"d", "a", "t", "a", "-", "a", "n", "a", "l", "y", "t", "i", "c", "s">>
AI_DEVELOPMENT == <<"a", "i", "-", "d", "e", "v", "e", "l", "o", "p", "m", "e", "n", "t">>
GENERAL == <<"g", "e", "n", "e", "r", "a", "l">>

PROBLEM == <<"p", "r", "o", "b", "l", "e", "m">>
SOLUTION == <<"s", "o", "l", "u", "t", "i", "o", "n">>
OFFER == <<"o", "f", "f", "e", "r">>

\* The industry of the test prospect (test_workflow.py)
HEALTHCARE == <<"H", "e", "a", "l", "t", "h", "c", "a", "r", "e">>

\* LangGraph's START and END, and the three nodes of the graph
START == "__start__"
END == "__end__"
Nodes == {"analyze_intent", "rank_assets", "handle_error"}


\* A call either returns a value or raises an exception.
Return(v) == [raised |-> FALSE, value |-> v]
Raise(e) == [raised |-> TRUE, exc |-> e]

\* ---------------------------------------- models/state.py: the AgentState
\* Mutant of create_initial_state: the state starts with a ranking already
\* filled in.
create_initial_state_Seeded(prospect_id, campaign_id) ==
    [prospect_id |-> prospect_id,
     campaign_id |-> campaign_id,
     prospect_data |-> None,
     intent_profile |-> None,
     ranked_assets |-> <<[asset_id |-> 101,
                          url |-> "https://example.com/blog/poc-limbo",
                          title |-> "Are Your Gen AI Experiments Stuck in POC Limbo?",
                          room |-> Str(PROBLEM),
                          score |-> 85,
                          match_reasons |-> <<"service_area", "pain_point_match">>]>>,
     selected_content |-> None,
     email_context |-> None,
     generated_email |-> None,
     error |-> None,
     requires_human_approval |-> FALSE]

\* create_initial_state(prospect_id, campaign_id)
create_initial_state(prospect_id, campaign_id) ==
    [prospect_id |-> prospect_id,
     campaign_id |-> campaign_id,
     prospect_data |-> None,
     intent_profile |-> None,
     ranked_assets |-> <<>>,
     selected_content |-> None,
     email_context |-> None,
     generated_email |-> None,
     error |-> None,
     requires_human_approval |-> FALSE]

\* LangGraph merges the dict a node returns into the state: the keys the
\* node returned are overwritten, every other key is kept.
Merge(st, update) ==
    [k \in DOMAIN st |-> IF k \in DOMAIN update THEN update[k] ELSE st[k]]

\* ------------------------- agents/matching/intent_summarizer.py
\* The confidence constant 0.75, in hundredths.
CONFIDENCE == 75

\* s.lower() of the value of prospect_data.get("industry", ""): a str has
\* the method, None has not (AttributeError).
IndustryLower(prospect_data) ==
    LET industry == Get(prospect_data, "industry", Str(<<>>))
    IN  IF industry.type = "str"
          THEN Return(Lower(industry.val))
          ELSE Raise("AttributeError")

\* Mutant of _extract_service_area: the finance test comes before the
\* health test.
_extract_service_area_FinanceFirst(prospect_data) ==
    IF IsNone(prospect_data)
      THEN Return(Str(CLOUD_MIGRATION))
    ELSE IF HasKey(prospect_data, "service_area")
      THEN Return(prospect_data.items["service_area"])
    ELSE LET industry == IndustryLower(prospect_data)
         IN  IF industry.raised THEN industry
             ELSE IF Contains(FINANCE, industry.value)
               THEN Return(Str(CLOUD_MIGRATION))
             ELSE IF Contains(HEALTH, industry.value)
               THEN Return(Str(DATA_ANALYTICS))
             ELSE Return(Str(AI_DEVELOPMENT))

_extract_service_area(prospect_data) ==
    IF IsNone(prospect_data)
      THEN Return(Str(CLOUD_MIGRATION))
    ELSE IF HasKey(prospect_data, "service_area")
      THEN Return(prospect_data.items["service_area"])
    ELSE LET industry == IndustryLower(prospect_data)
         IN  IF industry.raised THEN industry
             ELSE IF Contains(HEALTH, industry.value)
               THEN Return(Str(DATA_ANALYTICS))
             ELSE IF Contains(FINANCE, industry.value)
               THEN Return(Str(CLOUD_MIGRATION))
             ELSE Return(Str(AI_DEVELOPMENT))

_extract_pain_points(prospect_data) ==
    IF IsNone(prospect_data)
      THEN Return(<<"POC projects not reaching production",
                    "Difficulty connecting AI to business value">>)
    ELSE LET industry == IndustryLower(prospect_data)
         IN  IF industry.raised THEN industry
             ELSE IF Contains(HEALTH, industry.value)
               THEN Return(<<"Data silos preventing analytics adoption",
                             "Compliance concerns with cloud migration">>)
             ELSE IF Contains(FINANCE, industry.value)
               THEN Return(<<"Legacy systems limiting innovation",
                             "High maintenance costs for on-premise infrastructure">>)
             ELSE Return(<<"AI experiments stuck in POC phase",
                           "Unclear roadmap for modernization">>)

\* Mutant of analyze_intent: the profile is stamped with the campaign's id
\* instead of the prospect's.
analyze_intent_CampaignId(st) ==
    LET service_area == _extract_service_area(st.prospect_data)
        pain_points == _extract_pain_points(st.prospect_data)
    IN  IF service_area.raised THEN service_area
        ELSE IF pain_points.raised THEN pain_points
        ELSE Return([intent_profile |->
                        [prospect_id |-> st.campaign_id,
                         service_area |-> service_area.value,
                         pain_points |-> pain_points.value,
                         confidence |-> CONFIDENCE]])

\* analyze_intent(state): the update {"intent_profile": ...}, or the
\* exception of the helper that raised (the function catches nothing).
analyze_intent(st) ==
    LET service_area == _extract_service_area(st.prospect_data)
        pain_points == _extract_pain_points(st.prospect_data)
    IN  IF service_area.raised THEN service_area
        ELSE IF pain_points.raised THEN pain_points
        ELSE Return([intent_profile |->
                        [prospect_id |-> st.prospect_id,
                         service_area |-> service_area.value,
                         pain_points |-> pain_points.value,
                         confidence |-> CONFIDENCE]])

\* ------------------------------- agents/matching/asset_ranker.py
SCORING_WEIGHTS ==
    [service_area |-> 25, persona |-> 20, industry |-> 20, format |-> 10,
     freshness |-> 5]

\* The mock content library of _get_mock_assets, keyed by service area.
mock_library ==
    (Str(AI_DEVELOPMENT) :> <<
        [asset_id |-> 101,
         url |-> "https://example.com/blog/poc-limbo",
         title |-> "Are Your Gen AI Experiments Stuck in POC Limbo?",
         room |-> Str(PROBLEM),
         score |-> 85,
         match_reasons |-> <<"service_area", "pain_point_match">>],
        [asset_id |-> 102,
         url |-> "https://example.com/blog/ai-roadmap",
         title |-> "Building an AI Roadmap: 5 Priorities for Getting Started",
         room |-> Str(SOLUTION),
         score |-> 72,
         match_reasons |-> <<"service_area", "industry_match">>] >>)
    @@
    (Str(CLOUD_MIGRATION) :> <<
        [asset_id |-> 201,
         url |-> "https://example.com/blog/data-center-budget",
         title |-> "Is Your Data Center Draining Your Budget?",
         room |-> Str(PROBLEM),
         score |-> 88,
         match_reasons |-> <<"service_area", "pain_point_match", "persona">>],
        [asset_id |-> 202,
         url |-> "https://example.com/blog/migration-roadmap",
         title |-> "Understanding Your Migration Roadmap and TCO",
         room |-> Str(SOLUTION),
         score |-> 70,
         match_reasons |-> <<"service_area">>] >>)
    @@
    (Str(DATA_ANALYTICS) :> <<
        [asset_id |-> 301,
         url |-> "https://example.com/blog/data-silos",
         title |-> "Drowning in Data Silos? 7 Red Flags to Watch For",
         room |-> Str(PROBLEM),
         score |-> 82,
         match_reasons |-> <<"service_area", "industry_match">>],
        [asset_id |-> 302,
         url |-> "https://example.com/blog/lakehouse-comparison",
         title |-> "Data Lakehouse vs. Traditional Warehousing: Pros and Cons",
         room |-> Str(SOLUTION),
         score |-> 68,
         match_reasons |-> <<"service_area">>] >>)

Reverse(seq) == [i \in 1..Len(seq) |-> seq[Len(seq) + 1 - i]]

\* Mutant of _get_mock_assets: the library's lists are handed out in the
\* opposite order (lowest score first).
_get_mock_assets_Reversed(service_area, prospect_data) ==
    IF service_area \in DOMAIN mock_library
      THEN Reverse(mock_library[service_area])
      ELSE Reverse(mock_library[Str(AI_DEVELOPMENT)])

\* mock_library.get(service_area, mock_library["ai-development"]);
\* prospect_data is a parameter the function never reads.
_get_mock_assets(service_area, prospect_data) ==
    IF service_area \in DOMAIN mock_library
      THEN mock_library[service_area]
      ELSE mock_library[Str(AI_DEVELOPMENT)]

\* Mutant of rank_assets: the selection is the last element, ranked_assets[-1].
rank_assets_SelectingLast(st) ==
    IF IsNone(st.intent_profile)
      THEN [ranked_assets |-> <<>>, selected_content |-> None]
      ELSE LET ranked_assets ==
                   _get_mock_assets(st.intent_profile.service_area, st.prospect_data)
           IN  [ranked_assets |-> ranked_assets,
                selected_content |-> ranked_assets[Len(ranked_assets)]]

\* Mutant of rank_assets: the check for a missing profile is gone and the
\* default "general" of the lookup takes its place.
rank_assets_NoProfileCheck(st) ==
    LET service_area ==
            IF IsNone(st.intent_profile) THEN Str(GENERAL)
            ELSE st.intent_profile.service_area
        ranked_assets == _get_mock_assets(service_area, st.prospect_data)
    IN  [ranked_assets |-> ranked_assets, selected_content |-> ranked_assets[1]]

\* Mutant of rank_assets: the node also fills in email_context.
rank_assets_WritingEmailContext(st) ==
    IF IsNone(st.intent_profile)
      THEN [ranked_assets |-> <<>>, selected_content |-> None]
      ELSE LET ranked_assets ==
                   _get_mock_assets(st.intent_profile.service_area, st.prospect_data)
           IN  [ranked_assets |-> ranked_assets,
                selected_content |-> ranked_assets[1],
                email_context |-> ranked_assets[1]]

\* rank_assets(state): the update {"ranked_assets", "selected_content"}.
\* The intent profile always has the key "service_area", so the default
\* "general" of intent_profile.get is never used.
rank_assets(st) ==
    IF IsNone(st.intent_profile)
      THEN [ranked_assets |-> <<>>, selected_content |-> None]
      ELSE LET service_area ==
                   IF "service_area" \in DOMAIN st.intent_profile
                     THEN st.intent_profile.service_area
                     ELSE Str(GENERAL)
               ranked_assets == _get_mock_assets(service_area, st.prospect_data)
               selected == IF Len(ranked_assets) > 0 THEN ranked_assets[1] ELSE None
           IN  [ranked_assets |-> ranked_assets, selected_content |-> selected]

\* ------------------------------------- graphs/email_generation.py
\* Mutant of route_after_intent: the check of state["error"] is missing.
route_after_intent_IgnoringError(st) ==
    IF IsNone(st.intent_profile) THEN "handle_error" ELSE "rank_assets"

\* Mutant of route_after_intent: a profile without a service area counts as
\* a failed analysis.
route_after_intent_RequiringArea(st) ==
    IF Truthy(st.error) THEN "handle_error"
    ELSE IF IsNone(st.intent_profile) THEN "handle_error"
    ELSE IF st.intent_profile.service_area \notin DOMAIN mock_library
      THEN "handle_error"
    ELSE "rank_assets"

route_after_intent(st) ==
    IF Truthy(st.error) THEN "handle_error"
    ELSE IF IsNone(st.intent_profile) THEN "handle_error"
    ELSE "rank_assets"

\* Mutant of handle_error: the handler also resets the error.
handle_error_ClearingError(st) ==
    [requires_human_approval |-> TRUE, error |-> None]

handle_error(st) == [requires_human_approval |-> TRUE]

\* ------------------------------------------------ the inputs of a run
\* Industry texts a prospect record may carry.
IndustryTexts ==
    { <<"H", "e", "a", "l", "t", "h", "c", "a", "r", "e">>,
      <<"F", "i", "n", "a", "n", "c", "e">>,
      <<"H", "E", "A", "L", "T", "H">>,
      <<"R", "e", "t", "a", "i", "l">>,
      <<"F", "i", "n", "a", "n", "c", "e", "/", "H", "e", "a", "l", "t", "h">>,
      <<>> }

\* An area that is no key of the library.
SECURITY == <<"s", "e", "c", "u", "r", "i", "t", "y">>

ProspectKeys == {"service_area", "industry", "current_room"}

\* The values a key of prospect_data may hold.  Prospect.industry is
\* "str | None" (services/wordpress_client.py), so None is one of them.
ProspectValues(key) ==
    CASE key = "service_area" ->
           {None, Str(AI_DEVELOPMENT), Str(CLOUD_MIGRATION), Str(DATA_ANALYTICS),
            Str(SECURITY)}
      [] key = "industry" -> {None} \cup {Str(t) : t \in IndustryTexts}
      [] key = "current_room" -> {Str(PROBLEM), Str(SOLUTION), Str(OFFER)}

AllProspectValues == UNION {ProspectValues(k) : k \in ProspectKeys}

\* prospect_data: None, or a dict holding any subset of the keys.
ProspectData ==
    {None} \cup
    UNION { { Dict(f) : f \in {g \in [K -> AllProspectValues] :
                                  \A k \in K : g[k] \in ProspectValues(k)} }
            : K \in SUBSET ProspectKeys }

\* A caller may hand invoke() a state whose error is already set.
ERROR_MESSAGE == <<"f", "e", "t", "c", "h", " ", "f", "a", "i", "l", "e", "d">>
Errors == {None, Str(ERROR_MESSAGE)}

\* ------------------------------------------------------ the state machine
\* The state handed to email_generation_graph.invoke(): create_initial_state
\* with prospect_data (and possibly error) filled in by the caller.
Init ==
    /\ \E prospect_id \in 1..MaxProspectId, campaign_id \in 1..MaxCampaignId,
          prospect_data \in ProspectData, error \in Errors :
          state = Merge(create_initial_state(prospect_id, campaign_id),
                        [prospect_data |-> prospect_data, error |-> error])
    /\ node = START
    /\ raised = None
    /\ executed = <<>>

\* set_entry_point("analyze_intent"): invoke() enters the graph.
Invoke ==
    /\ node = START
    /\ raised = None
    /\ node' = "analyze_intent"
    /\ UNCHANGED <<state, raised, executed>>

\* The node analyze_intent, then the conditional edge route_after_intent.
\* An exception of the node propagates out of invoke(): the run stops where
\* it is and no state is returned.
NodeAnalyzeIntent ==
    /\ node = "analyze_intent"
    /\ raised = None
    /\ LET result == analyze_intent(state)
       IN  IF result.raised
             THEN /\ raised' = [type |-> result.exc]
                  /\ UNCHANGED <<state, node, executed>>
             ELSE /\ state' = Merge(state, result.value)
                  /\ node' = route_after_intent(state')
                  /\ executed' = Append(executed, "analyze_intent")
                  /\ UNCHANGED raised

\* Mutant of NodeRankAssets: the edge out of rank_assets leads to
\* handle_error instead of END.
NodeRankAssets_ThenHandleError ==
    /\ node = "rank_assets"
    /\ raised = None
    /\ state' = Merge(state, rank_assets(state))
    /\ node' = "handle_error"
    /\ executed' = Append(executed, "rank_assets")
    /\ UNCHANGED raised

\* The node rank_assets, then add_edge("rank_assets", END).
NodeRankAssets ==
    /\ node = "rank_assets"
    /\ raised = None
    /\ state' = Merge(state, rank_assets(state))
    /\ node' = END
    /\ executed' = Append(executed, "rank_assets")
    /\ UNCHANGED raised

\* The node handle_error, then add_edge("handle_error", END).
NodeHandleError ==
    /\ node = "handle_error"
    /\ raised = None
    /\ state' = Merge(state, handle_error(state))
    /\ node' = END
    /\ executed' = Append(executed, "handle_error")
    /\ UNCHANGED raised

Next ==
    \/ Invoke
    \/ NodeAnalyzeIntent
    \/ NodeRankAssets
    \/ NodeHandleError

Spec == Init /\ [][Next]_vars

\* The graph runs a node as soon as it is scheduled.
FairSpec == Spec /\ WF_vars(Next)

\* ------------------------------------------- rank_assets called directly
\* The intent profiles a caller of rank_assets may hold in the state: none,
\* or a profile of the state's prospect for any service area value.
IntentProfiles(prospect_id) ==
    {None} \cup
    { [prospect_id |-> prospect_id,
       service_area |-> service_area,
       pain_points |-> <<"AI experiments stuck in POC phase",
                         "Unclear roadmap for modernization">>,
       confidence |-> CONFIDENCE] : service_area \in ProspectValues("service_area") }

\* rank_assets(state) applied to a state of any profile and any attributes,
\* as the function is exported by agents/matching/__init__.py.
RankInit ==
    /\ \E prospect_id \in 1..MaxProspectId, campaign_id \in 1..MaxCampaignId,
          prospect_data \in ProspectData :
          \E intent_profile \in IntentProfiles(prospect_id) :
              state = Merge(create_initial_state(prospect_id, campaign_id),
                            [prospect_data |-> prospect_data,
                             intent_profile |-> intent_profile])
    /\ node = "rank_assets"
    /\ raised = None
    /\ executed = <<>>

RankSpec == RankInit /\ [][NodeRankAssets]_vars

\* ------------------------------------------------------- concurrent runs
\* Several invocations of the compiled graph at once, one per prospect.  Each
\* invoke() works on the state dict it was handed; the module level holds
\* only the compiled graph, the logger and SCORING_WEIGHTS, none of which a
\* node writes, and mock_library is a local of each call.  Under ConcSpec the
\* variables hold one value per run: state[r], node[r], raised[r],
\* executed[r].
NumRuns == 2
Runs == 1..NumRuns

\* The attributes the concurrent runs are started with.
ConcProspectData ==
    { None,
      Dict([industry |-> Str(HEALTHCARE), current_room |-> Str(PROBLEM)]),
      Dict([service_area |-> Str(SECURITY), current_room |-> Str(OFFER)]),
      Dict([industry |-> None]) }

\* Run r is for prospect r; the runs belong to one campaign.
ConcInit ==
    /\ \E campaign_id \in 1..MaxCampaignId :
          \E prospect_data \in [Runs -> ConcProspectData], error \in [Runs -> Errors] :
              state = [r \in Runs |->
                          Merge(create_initial_state(r, campaign_id),
                                [prospect_data |-> prospect_data[r],
                                 error |-> error[r]])]
    /\ node = [r \in Runs |-> START]
    /\ raised = [r \in Runs |-> None]
    /\ executed = [r \in Runs |-> <<>>]

ConcInvoke(r) ==
    /\ node[r] = START
    /\ raised[r] = None
    /\ node' = [node EXCEPT ![r] = "analyze_intent"]
    /\ UNCHANGED <<state, raised, executed>>

ConcAnalyzeIntent(r) ==
    /\ node[r] = "analyze_intent"
    /\ raised[r] = None
    /\ LET result == analyze_intent(state[r])
       IN  IF result.raised
             THEN /\ raised' = [raised EXCEPT ![r] = [type |-> result.exc]]
                  /\ UNCHANGED <<state, node, executed>>
             ELSE /\ state' = [state EXCEPT ![r] = Merge(state[r], result.value)]
                  /\ node' = [node EXCEPT ![r] = route_after_intent(state'[r])]
                  /\ executed' = [executed EXCEPT ![r] = Append(@, "analyze_intent")]
                  /\ UNCHANGED raised

\* Mutant of ConcRankAssets: the profile is read from a place all runs
\* share, which holds the profile of whichever run wrote it last.
ConcRankAssets_SharedProfile(r) ==
    /\ node[r] = "rank_assets"
    /\ raised[r] = None
    /\ \E q \in Runs :
          /\ state[q].intent_profile # None
          /\ state' = [state EXCEPT ![r] =
                          Merge(state[r],
                                rank_assets([state[r] EXCEPT
                                                !.intent_profile = state[q].intent_profile]))]
    /\ node' = [node EXCEPT ![r] = END]
    /\ executed' = [executed EXCEPT ![r] = Append(@, "rank_assets")]
    /\ UNCHANGED raised

ConcRankAssets(r) ==
    /\ node[r] = "rank_assets"
    /\ raised[r] = None
    /\ state' = [state EXCEPT ![r] = Merge(state[r], rank_assets(state[r]))]
    /\ node' = [node EXCEPT ![r] = END]
    /\ executed' = [executed EXCEPT ![r] = Append(@, "rank_assets")]
    /\ UNCHANGED raised

ConcHandleError(r) ==
    /\ node[r] = "handle_error"
    /\ raised[r] = None
    /\ state' = [state EXCEPT ![r] = Merge(state[r], handle_error(state[r]))]
    /\ node' = [node EXCEPT ![r] = END]
    /\ executed' = [executed EXCEPT ![r] = Append(@, "handle_error")]
    /\ UNCHANGED raised

ConcNext ==
    \E r \in Runs :
        \/ ConcInvoke(r)
        \/ ConcAnalyzeIntent(r)
        \/ ConcRankAssets(r)
        \/ ConcHandleError(r)

ConcSpec == ConcInit /\ [][ConcNext]_vars

TypeOK ==
    /\ node \in {START, END} \cup Nodes
    /\ raised \in {None, [type |-> "AttributeError"]}
    /\ state.prospect_id \in 1..MaxProspectId
    /\ state.campaign_id \in 1..MaxCampaignId
    /\ state.requires_human_approval \in BOOLEAN


\* ---------------------------------------------------------- the claims
Ran(n) == \E i \in 1..Len(executed) : executed[i] = n

RankedSet == {state.ranked_assets[i] : i \in 1..Len(state.ranked_assets)}

HasCurrentRoom ==
    ~IsNone(state.prospect_data) /\ HasKey(state.prospect_data, "current_room")

\* C1: every run of the workflow reaches END: a run that can take no further
\* step has stopped at END and nowhere else.
C1_RunStopsOnlyAtEnd == (~ENABLED Next) => node = END

C3_OnlyAssetsOfCurrentRoom ==
    (Ran("rank_assets") /\ HasCurrentRoom) =>
        /\ \A a \in RankedSet : a.room = state.prospect_data.items["current_room"]
        /\ (state.selected_content # None =>
              state.selected_content.room = state.prospect_data.items["current_room"])

\* C4: after rank_assets, selected_content is the element of ranked_assets of
\* maximum score, the lowest asset_id among equals, and it is None exactly
\* when ranked_assets is empty.
C4_SelectedIsTop ==
    Ran("rank_assets") =>
        /\ (state.selected_content = None <=> state.ranked_assets = <<>>)
        /\ (state.ranked_assets # <<>> =>
              /\ state.selected_content \in RankedSet
              /\ \A a \in RankedSet :
                    \/ a.score < state.selected_content.score
                    \/ /\ a.score = state.selected_content.score
                       /\ a.asset_id >= state.selected_content.asset_id)

\* C4 witness: a finished run whose ranking holds several assets and a
\* selection.
C4_Witness ==
    /\ node = END
    /\ Ran("rank_assets")
    /\ Len(state.ranked_assets) >= 2
    /\ state.selected_content # None

RECURSIVE SumOfWeights(_)
SumOfWeights(reasons) ==
    IF reasons = <<>> THEN 0
    ELSE SCORING_WEIGHTS[Head(reasons)] + SumOfWeights(Tail(reasons))

\* The sum of all weights of SCORING_WEIGHTS (80).
TotalWeight ==
    SumOfWeights(<<"service_area", "persona", "industry", "format", "freshness">>)

\* C5: every ranked asset names only defined criteria in match_reasons, its
\* score is the sum of their weights, and its score is at most 80.
C5_ScoreIsSumOfWeights ==
    \A a \in RankedSet :
        /\ \A i \in 1..Len(a.match_reasons) :
              a.match_reasons[i] \in DOMAIN SCORING_WEIGHTS
        /\ a.score = SumOfWeights(a.match_reasons)
        /\ a.score <= TotalWeight

\* C6: ranked_assets is sorted by score descending, equal scores by
\* ascending asset_id.
C6_SortedByScore ==
    Ran("rank_assets") =>
        \A i, j \in 1..Len(state.ranked_assets) :
            i < j =>
                \/ state.ranked_assets[i].score > state.ranked_assets[j].score
                \/ /\ state.ranked_assets[i].score = state.ranked_assets[j].score
                   /\ state.ranked_assets[i].asset_id < state.ranked_assets[j].asset_id

\* C6 witness: a ranking of two assets has been returned.
C6_Witness ==
    /\ Ran("rank_assets")
    /\ Len(state.ranked_assets) >= 2
    /\ state.ranked_assets[1].score > state.ranked_assets[2].score

\* The library has no asset of the requested service area in the prospect's
\* current room: the area is None or no key of the library, or none of its
\* assets is of that room.
NoCandidateInRoom ==
    LET service_area == state.intent_profile.service_area
    IN  \/ service_area \notin DOMAIN mock_library
        \/ /\ HasCurrentRoom
           /\ \A i \in 1..Len(mock_library[service_area]) :
                 mock_library[service_area][i].room #
                     state.prospect_data.items["current_room"]

\* C7: with a profile, when the library has no candidate for the requested
\* service area in the prospect's current room, rank_assets returns the
\* default subset (the ai-development assets).
C7_FallbackToDefaultSubset ==
    (Ran("rank_assets") /\ state.intent_profile # None /\ NoCandidateInRoom) =>
        state.ranked_assets = mock_library[Str(AI_DEVELOPMENT)]

\* C8: analyze_intent never fails: for every prospect_id and prospect_data it
\* returns a profile that is not None and does not raise.
C8_AnalyzeIntentNeverFails ==
    node = "analyze_intent" =>
        /\ ~analyze_intent(state).raised
        /\ analyze_intent(state).value.intent_profile # None

\* C9: a fault inside a stage is recorded in error and the run goes on to
\* handle_error (and from there to END with requires_human_approval).
C9_FaultIsRecordedAndRouted ==
    [][(node = "analyze_intent" /\ analyze_intent(state).raised) =>
          /\ state'.error # None
          /\ node' = "handle_error"
          /\ raised' = None]_vars

\* C10: handle_error sets requires_human_approval, leaves error as it was and
\* goes to END; a run that passed through handle_error ends with no
\* selection and no ranked assets.
C10_ErrorHandling ==
    /\ [][node = "handle_error" /\ executed' # executed =>
             /\ state'.requires_human_approval = TRUE
             /\ state'.error = state.error
             /\ node' = END]_vars
    /\ []((Ran("handle_error") /\ node = END) =>
             /\ state.selected_content = None
             /\ state.ranked_assets = <<>>)

\* C10 witness: a run ended through handle_error with its error still set.
C10_Witness ==
    /\ node = END
    /\ Ran("handle_error")
    /\ state.requires_human_approval
    /\ state.error = Str(ERROR_MESSAGE)

\* The run's attributes are absent, or the service area its profile asks
\* for has no entries in the library.
DataAbsent ==
    \/ state.prospect_data = None
    \/ /\ state.intent_profile # None
       /\ state.intent_profile.service_area \notin DOMAIN mock_library

\* C11: handle_error is entered only with error set; a run started with error
\* unset whose attributes are absent, or whose service area has no library
\* entries, never enters handle_error and keeps error unset and
\* requires_human_approval false to its end.
C11_DataAbsenceIsNoFailure ==
    /\ (node = "handle_error" \/ Ran("handle_error")) => state.error # None
    /\ (state.error = None /\ DataAbsent) =>
          /\ node # "handle_error"
          /\ ~Ran("handle_error")
          /\ state.requires_human_approval = FALSE

\* C11 witness: a run without error whose service area is no key of the
\* library has ended with a ranking and without review.
C11_Witness ==
    /\ node = END
    /\ state.error = None
    /\ state.prospect_data # None
    /\ state.intent_profile.service_area \notin DOMAIN mock_library
    /\ state.ranked_assets # <<>>
    /\ state.requires_human_approval = FALSE

\* C12: for a prospect without attributes, the profile analyze_intent
\* produces is the fallback area cloud-migration, the two fallback pain
\* points in their order, the confidence constant and the run's prospect_id.
C12_ProfileWithoutAttributes ==
    (Ran("analyze_intent") /\ state.prospect_data = None) =>
        state.intent_profile =
            [prospect_id |-> state.prospect_id,
             service_area |-> Str(CLOUD_MIGRATION),
             pain_points |-> <<"POC projects not reaching production",
                               "Difficulty connecting AI to business value">>,
             confidence |-> 75]

\* C12 witness: analyze_intent has run for a prospect without attributes
\* whose id differs from the campaign's.
C12_Witness ==
    /\ Ran("analyze_intent")
    /\ state.prospect_data = None
    /\ state.prospect_id # state.campaign_id
    /\ state.intent_profile # None

\* Scenario B of the tests: industry "Healthcare", a current room, no explicit
\* service area, error unset.
ScenarioB ==
    /\ state.prospect_data # None
    /\ HasCurrentRoom
    /\ ~HasKey(state.prospect_data, "service_area")
    /\ HasKey(state.prospect_data, "industry")
    /\ state.prospect_data.items["industry"] = Str(HEALTHCARE)
    /\ state.error = None

\* C13: a run for industry "Healthcare" with a current room ends with error
\* unset, the service area data-analytics, a selection, and only assets of
\* that area and of the prospect's current room in ranked_assets.
C13_HealthcareRun ==
    (ScenarioB /\ node = END) =>
        /\ state.error = None
        /\ state.intent_profile.service_area = Str(DATA_ANALYTICS)
        /\ state.selected_content # None
        /\ \A a \in RankedSet :
              /\ \E i \in 1..Len(mock_library[Str(DATA_ANALYTICS)]) :
                    mock_library[Str(DATA_ANALYTICS)][i] = a
              /\ a.room = state.prospect_data.items["current_room"]

\* C15: ranked_assets is non-empty, or selected_content set, only when
\* intent_profile is set.
C15_RankingOnlyWithProfile ==
    (state.ranked_assets # <<>> \/ state.selected_content # None) =>
        state.intent_profile # None

\* C15 witness: a ranking and a selection are present, with a profile.
C15_Witness ==
    /\ state.ranked_assets # <<>>
    /\ state.selected_content # None
    /\ state.intent_profile # None

\* Two characters are the same letter, whatever their case.
SameLetter(c, d) ==
    \/ c = d
    \/ <<c, d>> \in {<<"H", "h">>, <<"E", "e">>, <<"A", "a">>, <<"L", "l">>,
                     <<"T", "t">>, <<"F", "f">>, <<"I", "i">>, <<"N", "n">>,
                     <<"C", "c">>, <<"R", "r">>}

\* word (in lower case) occurs in text, case ignored.
Mentions(text, word) ==
    \E i \in 0..(Len(text) - Len(word)) :
        \A k \in 1..Len(word) : SameLetter(text[i + k], word[k])

\* The industry text of the attributes; a missing key reads as "".
IndustryText ==
    IF HasKey(state.prospect_data, "industry")
      THEN state.prospect_data.items["industry"]
      ELSE Str(<<>>)

C18_SinglePass ==
    /\ [](/\ \A i, j \in 1..Len(executed) : executed[i] = executed[j] => i = j
          /\ ~(Ran("rank_assets") /\ Ran("handle_error")))
    /\ [][/\ node # END
          /\ (node = "rank_assets" => node' = END)]_vars

\* C18 witness: a run that ended right after rank_assets.
C18_Witness ==
    /\ node = END
    /\ executed = <<"analyze_intent", "rank_assets">>

\* The keys of the state whose value a step changed.
Written == {k \in DOMAIN state : state'[k] # state[k]}

\* C19: analyze_intent writes only intent_profile, rank_assets only
\* ranked_assets and selected_content, handle_error only
\* requires_human_approval; prospect_id, campaign_id and prospect_data never
\* change, and a profile once produced is not changed.
C19_StagesWriteOwnFields ==
    [][/\ DOMAIN state' = DOMAIN state
       /\ node = START => Written = {}
       /\ node = "analyze_intent" => Written \subseteq {"intent_profile"}
       /\ node = "rank_assets" =>
             Written \subseteq {"ranked_assets", "selected_content"}
       /\ node = "handle_error" => Written \subseteq {"requires_human_approval"}
       /\ Written \cap {"prospect_id", "campaign_id", "prospect_data"} = {}
       /\ state.intent_profile # None =>
             state'.intent_profile = state.intent_profile]_vars

\* C19 witness: rank_assets has written its two fields next to a profile.
C19_Witness ==
    /\ Ran("rank_assets")
    /\ state.intent_profile # None
    /\ state.ranked_assets # <<>>
    /\ state.selected_content # None
    /\ state.email_context = None

\* C14: rank_assets called without a profile returns no ranked assets and no
\* selection, whatever the attributes; it sets no error and does not raise.
C14_NoProfileNoRanking ==
    (Ran("rank_assets") /\ state.intent_profile = None) =>
        /\ state.ranked_assets = <<>>
        /\ state.selected_content = None
        /\ state.error = None
        /\ raised = None
        /\ node = END

\* C14 witness: rank_assets has returned for a state without a profile whose
\* attributes name a room and a service area.
C14_Witness ==
    /\ Ran("rank_assets")
    /\ state.intent_profile = None
    /\ state.prospect_data # None
    /\ HasCurrentRoom
    /\ HasKey(state.prospect_data, "service_area")

\* The state a run was started with: no node writes prospect_id,
\* campaign_id, prospect_data or error.
StartedWith(st) ==
    Merge(create_initial_state(st.prospect_id, st.campaign_id),
          [prospect_data |-> st.prospect_data, error |-> st.error])

\* The state invoke() returns for st when it is the only run; no state if
\* analyze_intent raises.
RunAlone(st) ==
    LET result == analyze_intent(st)
        analyzed == Merge(st, result.value)
    IN  IF result.raised THEN None
        ELSE IF route_after_intent(analyzed) = "rank_assets"
          THEN Merge(analyzed, rank_assets(analyzed))
          ELSE Merge(analyzed, handle_error(analyzed))

\* C16: runs for different prospects, their nodes interleaved in any order,
\* each end in the state they end in when run alone, and a step of one run
\* changes nothing of another run.
C16_RunsAreIndependent ==
    /\ [](\A r \in Runs :
             /\ node[r] = END => state[r] = RunAlone(StartedWith(state[r]))
             /\ raised[r] # None => RunAlone(StartedWith(state[r])) = None)
    /\ [][\E r \in Runs : \A q \in Runs \ {r} :
             /\ state'[q] = state[q]
             /\ node'[q] = node[q]
             /\ raised'[q] = raised[q]
             /\ executed'[q] = executed[q]]_vars

\* C16 witness: two runs have ended, one through rank_assets and one through
\* handle_error, with different results.
C16_Witness ==
    /\ \A r \in Runs : node[r] = END
    /\ \E r, q \in Runs :
          /\ state[r].ranked_assets # <<>>
          /\ state[r].intent_profile.service_area = Str(DATA_ANALYTICS)
          /\ state[q].requires_human_approval
          /\ state[q].ranked_assets = <<>>

\* A run of Spec ends in the state RunAlone computes.
SingleRunIsRunAlone ==
    /\ node = END => state = RunAlone(StartedWith(state))
    /\ raised # None => RunAlone(StartedWith(state)) = None

=============================================================================
